---- MODULE Spec2Model ----
(***************************************************************************)
(* Model of the staking contract (src/staking_contract/src/lib.rs).        *)
(*                                                                         *)
(* The contract is a NEAR smart contract: the host runs one call at a time *)
(* to completion (#[near_bindgen]); a panic (a failed assert!) aborts the  *)
(* call, discards every state change of that call and refunds the attached *)
(* deposit; a Promise transfer is deducted from the account when it is     *)
(* requested and is carried out by the host after the call has returned.   *)
(*                                                                         *)
(* stake, set_reward_rate, deposit_funds and withdraw_funds are one action *)
(* each.  unstake is modelled in four steps (pc): its checks, the ledger   *)
(* mutation, the transfer request and the release of the lock, since the   *)
(* lock it takes and releases is only observable inside the call.          *)
(*                                                                         *)
(* Spec is the deployed contract: the custodial balance changes only by    *)
(* attached deposits and by the transfers the contract requests.           *)
(* SpecLocked adds the step of tests::test_unstake_locked, which sets the  *)
(* lock by hand.                                                           *)
(***************************************************************************)
EXTENDS Integers, Sequences, FiniteSets, TLC

\* ---------------------------------------------------------------- bounds
\* width of the amount type in the model (u128 in the source)
U128Bits == 5
\* all the value that exists on the host (what callers can ever attach)
MaxSupply == 3
\* transfers the host holds in flight at most
MaxPending == 1

U128Max == 2 ^ U128Bits - 1
U8Max == 255

Accounts == {"alice", "bob"}
\* attached deposits and amount arguments; U128Max is the largest argument
Deposits == 0 .. MaxSupply
Amounts == (0 .. MaxSupply) \cup {U128Max}
\* reward rates the owner sets (u8); 10 is the constructor's rate
Rates == {10, 150, U8Max}

VARIABLES
    owner_id,               \* StakingContract.owner_id
    staked_balances,        \* StakingContract.staked_balances (a map)
    total_staked_balance,   \* StakingContract.total_staked_balance
    reward_rate,            \* StakingContract.reward_rate
    is_unstaking_locked,    \* StakingContract.is_unstaking_locked
    account_balance,        \* env::account_balance(): the custodial balance
    pending,                \* transfers requested, not yet delivered by the host
    pc,                     \* position of the executing unstake, or "idle"
    call,                   \* the executing call: arguments, locals, saved state
    last,                   \* outcome of the call that finished last
    \* ConditionalLockupContract
    user_account_id,        \* Option<AccountId>: who locked the funds
    beneficiary_id,         \* AccountId
    verifier_account_id,    \* AccountId
    locked_amount,          \* u128
    condition_was_met,      \* Option<bool>: the verifier's report
    released                \* the transfers withdraw has requested so far

lockup_vars == <<user_account_id, beneficiary_id, verifier_account_id,
                 locked_amount, condition_was_met, released>>

staking_vars == <<owner_id, staked_balances, total_staked_balance, reward_rate,
                  is_unstaking_locked, pending, pc, call>>

vars == <<owner_id, staked_balances, total_staked_balance, reward_rate,
          is_unstaking_locked, account_balance, pending, pc, call, last,
          lockup_vars>>

\* ------------------------------------------------------------ error names
AlreadyLocked == "Unstaking is currently locked"
InsufficientStake == "Not enough staked balance to unstake"
InsufficientPoolFunds == "Not enough funds in contract to pay reward"
InsufficientAvailableFunds == "Not enough available funds to withdraw"
NotAuthorizedRate == "Only owner can set reward rate"
NotAuthorizedDeposit == "Only owner can deposit funds"
NotAuthorizedWithdraw == "Only owner can withdraw funds"
Overflow == "attempt to add or subtract with overflow"
BalanceExceeded == "BalanceExceeded"
Ok == "ok"

\* ------------------------------------------------------- map and integers
\* staked_balances.get(&k).unwrap_or(&0)
Get_Default1(map, k) == IF k \in DOMAIN map THEN map[k] ELSE 1
Get(map, k) == IF k \in DOMAIN map THEN map[k] ELSE 0

\* staked_balances.insert(k, v)
Insert_Alone(map, k, v) == [x \in {k} |-> v]

Insert(map, k, v) ==
    [x \in (DOMAIN map) \cup {k} |-> IF x = k THEN v ELSE map[x]]

RECURSIVE SumOver(_, _)
SumOver(map, keys) ==
    IF keys = {} THEN 0
    ELSE LET k == CHOOSE x \in keys : TRUE
         IN  map[k] + SumOver(map, keys \ {k})

\* the true sum of all per-participant balances
SumBalances(map) == SumOver(map, DOMAIN map)

\* u128 a + b and a - b: the exact result when it fits
Fits(n) == n >= 0 /\ n <= U128Max
\* the value a wrapping build stores
Wrap(n) == n % (U128Max + 1)

\* u128 + and - wrap in a build without overflow checks and panic in one
\* with them; the source does not fix the profile, so both are outcomes
WrappingBuild == TRUE

\* U256 holds every product of a u128 and a u8: it is wider than u128 by
\* more than the U8Bits of the rate
U8Bits == 8
U256Max == 2 ^ (U128Bits + U8Bits) - 1

\* the product taken in u128, as amount * rate as u128 would be
Reward_Narrow(amount, rate) == Wrap(amount * rate) \div 100

\* the remainder of the division in place of its quotient
Reward_Remainder(amount, rate) == (amount * rate) % 100

\* (U256::from(amount) * U256::from(rate)) / U256::from(100)
Reward(amount, rate) == ((amount * rate) % (U256Max + 1)) \div 100

\* assert!(!self.is_unstaking_locked, ...)
LockFree_Always(lock) == TRUE
LockFree(lock) == ~lock

\* assert!(current_balance >= amount, ...)
HasStake_OffByOne(current_balance, amount) == current_balance + 1 >= amount
HasStake(current_balance, amount) == current_balance >= amount

\* assert!(env::account_balance() >= self.total_staked_balance + reward, ...)
Solvent_RewardOnly(balance, total, reward) == balance >= reward
Solvent_Strict(balance, total, reward) == balance > Wrap(total + reward)
Solvent(balance, total, reward) == balance >= Wrap(total + reward)

\* let total_to_transfer = amount + reward
TotalToTransfer_PrincipalOnly(amount, reward) == amount
TotalToTransfer(amount, reward) == amount + reward

\* self.total_staked_balance -= amount  (the exact difference)
TotalAfterUnstake_Kept(total, amount) == total
TotalAfterUnstake(total, amount) == total - amount

\* env::account_balance().as_yoctonear() - self.total_staked_balance
AvailableBalance_IgnoresStake(balance, total) == balance
AvailableBalance(balance, total) == balance - total

\* -------------------------------------------------------- call bookkeeping
Snapshot ==
    [staked_balances |-> staked_balances,
     total_staked_balance |-> total_staked_balance,
     reward_rate |-> reward_rate,
     is_unstaking_locked |-> is_unstaking_locked,
     account_balance |-> account_balance]

EmptySnapshot ==
    [staked_balances |-> <<>>, total_staked_balance |-> 0, reward_rate |-> 0,
     is_unstaking_locked |-> FALSE, account_balance |-> 0]

\* unstake transfers the host has not delivered yet
UnstakeInFlight ==
    Cardinality({i \in 1 .. Len(pending) : pending[i].op = "unstake"})

NewCall(op, caller, amount, deposit) ==
    [op |-> op, caller |-> caller, amount |-> amount, deposit |-> deposit,
     saved |-> Snapshot, in_flight |-> UnstakeInFlight,
     current_balance |-> 0, reward |-> 0, total_to_transfer |-> 0,
     balance_seen |-> 0, promises |-> <<>>]

NoCall ==
    [op |-> "none", caller |-> "none", amount |-> 0, deposit |-> 0,
     saved |-> EmptySnapshot, in_flight |-> 0,
     current_balance |-> 0, reward |-> 0, total_to_transfer |-> 0,
     balance_seen |-> 0, promises |-> <<>>]

Outcome(c, status) == [op |-> c.op, caller |-> c.caller, status |-> status]

NoOutcome == Outcome(NoCall, "none")

\* the host keeps at most MaxPending transfers in flight: it has delivered
\* the oldest ones by the time newer ones are handed to it
Newest(q) ==
    IF Len(q) <= MaxPending THEN q
    ELSE SubSeq(q, Len(q) - MaxPending + 1, Len(q))

\* what the host keeps of a requested transfer until it is delivered
InFlight(t) == [to |-> t.to, op |-> t.op]

Receipts(transfers) == [i \in 1 .. Len(transfers) |-> InFlight(transfers[i])]

\* the call ends: its outcome is recorded, its promises go to the host
Finish(c, status, transfers) ==
    /\ pc' = "idle"
    /\ call' = NoCall
    /\ last' = Outcome(c, status)
    /\ pending' = Newest(pending \o Receipts(transfers))

\* a panic: nothing the call did is kept, the attached deposit is refunded
Abort(c, msg) ==
    /\ staked_balances' = c.saved.staked_balances
    /\ total_staked_balance' = c.saved.total_staked_balance
    /\ reward_rate' = c.saved.reward_rate
    /\ is_unstaking_locked' = c.saved.is_unstaking_locked
    /\ account_balance' = c.saved.account_balance
    /\ Finish(c, msg, <<>>)

\* ----------------------------------------------------------------- Option
None == {}
Some(x) == {x}
IsNone(o) == o = {}
Unwrap(o) == CHOOSE x \in o : TRUE

\* ConditionalLockupContract::new(beneficiary_id, verifier_account_id)
LockupNew(beneficiary, verifier) ==
    /\ user_account_id = None
    /\ beneficiary_id = beneficiary
    /\ verifier_account_id = verifier
    /\ locked_amount = 0
    /\ condition_was_met = None
    /\ released = <<>>

\* ------------------------------------------------------------------- Init
Init ==
    /\ owner_id = "alice"
    /\ staked_balances = <<>>
    /\ total_staked_balance = 0
    /\ reward_rate = 10
    /\ is_unstaking_locked = FALSE
    /\ account_balance = 0
    /\ pending = <<>>
    /\ pc = "idle"
    /\ call = NoCall
    /\ last = NoOutcome
    /\ LockupNew("bob", "charlie")

\* assert_eq!(env::predecessor_account_id(), self.owner_id, ...)
IsOwner_Anyone(caller, owner) == TRUE

IsOwner(caller, owner) == caller = owner

\* self.reward_rate = new_rate, with no cap on the percentage
NewRate_Capped(new_rate) == IF new_rate > 100 THEN 100 ELSE new_rate

NewRate(new_rate) == new_rate

\* -------------------------------------------------------- set_reward_rate
set_reward_rate(caller, new_rate) ==
    /\ pc = "idle"
    /\ LET c == NewCall("set_reward_rate", caller, new_rate, 0)
       IN  IF ~IsOwner(caller, owner_id)
           THEN Abort(c, NotAuthorizedRate)
           ELSE /\ reward_rate' = NewRate(new_rate)
                /\ UNCHANGED <<staked_balances, total_staked_balance,
                               is_unstaking_locked, account_balance>>
                /\ Finish(c, Ok, <<>>)
    /\ UNCHANGED <<owner_id, lockup_vars>>

\* ------------------------------------------------------------------ stake
stake(caller, deposit) ==
    /\ pc = "idle"
    /\ account_balance + deposit <= MaxSupply
    /\ total_staked_balance + deposit <= MaxSupply
    /\ LET c == NewCall("stake", caller, deposit, deposit)
           current_balance == Get(staked_balances, caller)
           new_balance == current_balance + deposit
           new_total == total_staked_balance + deposit
       IN  \/ /\ ~Fits(new_balance) \/ ~Fits(new_total)
              /\ Abort(c, Overflow)
           \/ /\ Fits(new_balance) \/ WrappingBuild
              /\ Fits(new_total) \/ WrappingBuild
              /\ staked_balances' =
                     Insert(staked_balances, caller, Wrap(new_balance))
              /\ total_staked_balance' = Wrap(new_total)
              /\ account_balance' = account_balance + deposit
              /\ UNCHANGED <<reward_rate, is_unstaking_locked>>
              /\ Finish(c, Ok, <<>>)
    /\ UNCHANGED <<owner_id, lockup_vars>>

\* ---------------------------------------------------------- deposit_funds
deposit_funds(caller, deposit) ==
    /\ pc = "idle"
    /\ account_balance + deposit <= MaxSupply
    /\ LET c == NewCall("deposit_funds", caller, deposit, deposit)
       IN  IF ~IsOwner(caller, owner_id)
           THEN Abort(c, NotAuthorizedDeposit)
           ELSE /\ account_balance' = account_balance + deposit
                /\ UNCHANGED <<staked_balances, total_staked_balance,
                               reward_rate, is_unstaking_locked>>
                /\ Finish(c, Ok, <<>>)
    /\ UNCHANGED <<owner_id, lockup_vars>>

\* --------------------------------------------------------- withdraw_funds
withdraw_funds(caller, amount) ==
    /\ pc = "idle"
    /\ LET c == [NewCall("withdraw_funds", caller, amount, 0)
                   EXCEPT !.balance_seen = account_balance]
           diff == AvailableBalance(account_balance, total_staked_balance)
           available_balance == Wrap(diff)
           transfer == [to |-> owner_id, amount |-> amount,
                        op |-> "withdraw_funds"]
       IN  IF ~IsOwner(caller, owner_id)
           THEN Abort(c, NotAuthorizedWithdraw)
           ELSE \/ /\ ~Fits(diff)
                   /\ Abort(c, Overflow)
                \/ /\ Fits(diff) \/ WrappingBuild
                   /\ IF ~(available_balance >= amount)
                      THEN Abort(c, InsufficientAvailableFunds)
                      ELSE IF amount > account_balance
                      THEN Abort(c, BalanceExceeded)
                      ELSE /\ account_balance' = account_balance - amount
                           /\ UNCHANGED <<staked_balances,
                                          total_staked_balance, reward_rate,
                                          is_unstaking_locked>>
                           /\ Finish(c, Ok, <<transfer>>)
    /\ UNCHANGED <<owner_id, lockup_vars>>

\* ---------------------------------------------------------------- unstake
\* the checks of unstake, from the lock to the solvency assert; a panic after
\* the lock was set discards that write with the rest of the call
\*   assert!(!self.is_unstaking_locked, ...); self.is_unstaking_locked = true;
\*   let current_balance = ...; assert!(current_balance >= amount, ...);
\*   let reward = ...as_u128(); let total_to_transfer = amount + reward;
\*   assert!(env::account_balance() >= self.total_staked_balance + reward, ...)
unstake_enter(caller, amount) ==
    /\ pc = "idle"
    /\ LET current_balance == Get(staked_balances, caller)
           reward == Reward(amount, reward_rate)
           total_to_transfer == TotalToTransfer(amount, reward)
           sum == total_staked_balance + reward
           c == [NewCall("unstake", caller, amount, 0) EXCEPT
                   !.current_balance = current_balance,
                   !.reward = reward,
                   !.total_to_transfer = Wrap(total_to_transfer),
                   !.balance_seen = account_balance]
       IN  IF ~LockFree(is_unstaking_locked)
           THEN Abort(c, AlreadyLocked)
           ELSE IF ~HasStake(current_balance, amount)
           THEN Abort(c, InsufficientStake)
           ELSE IF ~Fits(reward)
           THEN Abort(c, Overflow)
           ELSE \/ /\ ~Fits(total_to_transfer) \/ ~Fits(sum)
                   /\ Abort(c, Overflow)
                \/ /\ Fits(total_to_transfer) \/ WrappingBuild
                   /\ Fits(sum) \/ WrappingBuild
                   /\ IF ~Solvent(account_balance, total_staked_balance,
                                  reward)
                      THEN Abort(c, InsufficientPoolFunds)
                      ELSE /\ is_unstaking_locked' = TRUE
                           /\ pc' = "mutate"
                           /\ call' = c
                           /\ UNCHANGED <<staked_balances,
                                          total_staked_balance, reward_rate,
                                          account_balance, pending, last>>
    /\ UNCHANGED <<owner_id, lockup_vars>>

\* the ledger left as it is until after the transfer
unstake_mutate_Deferred ==
    /\ pc = "mutate"
    /\ pc' = "transfer"
    /\ UNCHANGED <<lockup_vars, owner_id, staked_balances, total_staked_balance,
                   reward_rate, is_unstaking_locked, account_balance, pending,
                   call, last>>

\* insert(staker, current_balance - amount); total_staked_balance -= amount;
unstake_mutate ==
    /\ pc = "mutate"
    /\ LET new_balance == call.current_balance - call.amount
           new_total == TotalAfterUnstake(total_staked_balance, call.amount)
       IN  \/ /\ ~Fits(new_balance) \/ ~Fits(new_total)
              /\ Abort(call, Overflow)
           \/ /\ Fits(new_balance) \/ WrappingBuild
              /\ Fits(new_total) \/ WrappingBuild
              /\ staked_balances' =
                     Insert(staked_balances, call.caller, Wrap(new_balance))
              /\ total_staked_balance' = Wrap(new_total)
              /\ pc' = "transfer"
              /\ UNCHANGED <<reward_rate, is_unstaking_locked,
                             account_balance, pending, call, last>>
    /\ UNCHANGED <<owner_id, lockup_vars>>

\* Promise::new(staker).transfer(total_to_transfer)
unstake_transfer ==
    /\ pc = "transfer"
    /\ LET transfer == [to |-> call.caller, amount |-> call.total_to_transfer,
                        op |-> "unstake"]
       IN  IF call.total_to_transfer > account_balance
           THEN Abort(call, BalanceExceeded)
           ELSE /\ account_balance' = account_balance - call.total_to_transfer
                /\ call' = [call EXCEPT !.promises = Append(@, transfer)]
                /\ pc' = "release"
                /\ UNCHANGED <<staked_balances, total_staked_balance,
                               reward_rate, is_unstaking_locked, pending, last>>
    /\ UNCHANGED <<owner_id, lockup_vars>>

\* self.is_unstaking_locked = false; and the call returns
unstake_release_KeepLock ==
    /\ pc = "release"
    /\ Finish(call, Ok, call.promises)
    /\ UNCHANGED <<lockup_vars, owner_id, staked_balances, total_staked_balance,
                   reward_rate, is_unstaking_locked, account_balance>>
unstake_release ==
    /\ pc = "release"
    /\ is_unstaking_locked' = FALSE
    /\ Finish(call, Ok, call.promises)
    /\ UNCHANGED <<lockup_vars, owner_id, staked_balances, total_staked_balance,
                   reward_rate, account_balance>>

\* ------------------------------------------------------------------- host
\* the host carries out the oldest requested transfer
Deliver ==
    /\ pc = "idle"
    /\ pending # <<>>
    /\ pending' = Tail(pending)
    /\ UNCHANGED <<lockup_vars, owner_id, staked_balances, total_staked_balance,
                   reward_rate, is_unstaking_locked, account_balance, pc, call,
                   last>>

\* tests::test_unstake_locked: contract.is_unstaking_locked = true
TestLock ==
    /\ pc = "idle"
    /\ is_unstaking_locked' = TRUE
    /\ UNCHANGED <<lockup_vars, owner_id, staked_balances, total_staked_balance,
                   reward_rate, account_balance, pending, pc, call,
                   last>>

\* tests: testing_env!(get_context(..).account_balance(b).build()), the unit
\* tests' host reports whatever balance the test gives it
TestingEnv(b) ==
    /\ pc = "idle"
    /\ account_balance' = b
    /\ UNCHANGED <<lockup_vars, owner_id, staked_balances, total_staked_balance,
                   reward_rate, is_unstaking_locked, pending, pc, call,
                   last>>

CallSetRewardRate == \E a \in Accounts, r \in Rates : set_reward_rate(a, r)
CallStake == \E a \in Accounts, d \in Deposits : stake(a, d)
CallDepositFunds == \E a \in Accounts, d \in Deposits : deposit_funds(a, d)
CallWithdrawFunds == \E a \in Accounts, n \in Amounts : withdraw_funds(a, n)
CallUnstake == \E a \in Accounts, n \in Amounts : unstake_enter(a, n)

Next ==
    \/ CallSetRewardRate
    \/ CallStake
    \/ CallDepositFunds
    \/ CallWithdrawFunds
    \/ CallUnstake
    \/ unstake_mutate
    \/ unstake_transfer
    \/ unstake_release
    \/ Deliver

Spec == Init /\ [][Next]_vars

\* the contract as the unit test drives it, which sets the lock by hand
NextLocked ==
    \/ CallSetRewardRate
    \/ CallStake
    \/ CallDepositFunds
    \/ CallWithdrawFunds
    \/ CallUnstake
    \/ unstake_mutate
    \/ unstake_transfer
    \/ unstake_release
    \/ Deliver
    \/ TestLock

SpecLocked == Init /\ [][NextLocked]_vars

\* ------------------------------------------------- the reward computation
\* lines 55-56 of unstake on their own: the inputs are any u128 amount and
\* any u8 rate, the output is the reward or the panic of as_u128()
RewardOutcome(amount, rate) ==
    LET reward == Reward(amount, rate)
    IN  /\ pc' = "output"
        /\ reward_rate' = rate
        /\ call' = [call EXCEPT !.amount = amount,
                                !.reward = IF Fits(reward) THEN reward ELSE 0]
        /\ last' = [op |-> "reward", caller |-> "none",
                    status |-> IF Fits(reward) THEN Ok ELSE Overflow]
        /\ UNCHANGED <<lockup_vars, owner_id, staked_balances, total_staked_balance,
                       is_unstaking_locked, account_balance, pending>>

InitCalc ==
    /\ owner_id = "alice"
    /\ staked_balances = <<>>
    /\ total_staked_balance = 0
    /\ reward_rate \in 0 .. U8Max
    /\ is_unstaking_locked = FALSE
    /\ account_balance = 0
    /\ pending = <<>>
    /\ pc = "input"
    /\ \E amount \in 0 .. U128Max : call = [NoCall EXCEPT !.amount = amount]
    /\ last = NoOutcome
    /\ LockupNew("bob", "charlie")

\* the reward of the inputs drawn
reward_of_input ==
    /\ pc = "input"
    /\ RewardOutcome(call.amount, reward_rate)

\* the reward of the next larger amount at the same rate
reward_of_next_amount ==
    /\ pc = "output"
    /\ call.amount < U128Max
    /\ RewardOutcome(call.amount + 1, reward_rate)

\* the reward of the same amount at the next larger rate
reward_of_next_rate ==
    /\ pc = "output"
    /\ reward_rate < U8Max
    /\ RewardOutcome(call.amount, reward_rate + 1)

NextCalc ==
    \/ reward_of_input
    \/ reward_of_next_amount
    \/ reward_of_next_rate

SpecCalc == InitCalc /\ [][NextCalc]_vars

SetAccountBalance == \E b \in 0 .. MaxSupply : TestingEnv(b)

\* the contract under the unit tests' host, which reports any balance
NextEnv ==
    \/ CallSetRewardRate
    \/ CallStake
    \/ CallDepositFunds
    \/ CallWithdrawFunds
    \/ CallUnstake
    \/ unstake_mutate
    \/ unstake_transfer
    \/ unstake_release
    \/ Deliver
    \/ SetAccountBalance

SpecEnv == Init /\ [][NextEnv]_vars

\* ============================================ ConditionalLockupContract
MaxReleases == 2

Parties == {"alice", "bob", "charlie"}

FundsAlreadyLocked == "Funds are already locked"
OnlyVerifier == "Only the verifier can report the condition"
AlreadyReported == "The condition has already been reported"
NotReported == "The condition has not been reported yet"
OnlyUser == "Only the user can withdraw the funds"
OnlyBeneficiary == "Only the beneficiary can withdraw the funds"
UnwrapNone == "called Option::unwrap() on a None value"

\* assert!(self.user_account_id.is_none(), ...)
NotYetLocked_Always(user) == TRUE

NotYetLocked(user) == IsNone(user)

\* assert!(self.condition_was_met.is_none(), ...)
NotYetReported_Always(condition) == TRUE

NotYetReported(condition) == IsNone(condition)

\* assert_eq!(env::predecessor_account_id(), user, ...) and the same for the
\* beneficiary
SameAccount_Any(caller, account) == TRUE

SameAccount(caller, account) == caller = account

\* a lockup call ends with status; a panic keeps nothing of the call
LockupDone(op, caller, status) ==
    /\ last' = [op |-> op, caller |-> caller, status |-> status]
    /\ UNCHANGED staking_vars

LockupPanic(op, caller, msg) ==
    /\ LockupDone(op, caller, msg)
    /\ UNCHANGED <<lockup_vars, account_balance>>

\* the contract's account holds whatever was sent to it before the lock
InitLockup ==
    /\ owner_id = "alice"
    /\ staked_balances = <<>>
    /\ total_staked_balance = 0
    /\ reward_rate = 10
    /\ is_unstaking_locked = FALSE
    /\ account_balance \in 0 .. MaxSupply
    /\ pending = <<>>
    /\ pc = "idle"
    /\ call = NoCall
    /\ last = NoOutcome
    /\ \E b \in Parties, v \in Parties : LockupNew(b, v)

lock_funds(caller, deposit) ==
    /\ account_balance + deposit <= MaxSupply
    /\ IF ~NotYetLocked(user_account_id)
       THEN LockupPanic("lock_funds", caller, FundsAlreadyLocked)
       ELSE /\ user_account_id' = Some(caller)
            /\ locked_amount' = deposit
            /\ account_balance' = account_balance + deposit
            /\ UNCHANGED <<beneficiary_id, verifier_account_id,
                           condition_was_met, released>>
            /\ LockupDone("lock_funds", caller, Ok)

report_condition(caller, condition_met) ==
    IF ~SameAccount(caller, verifier_account_id)
    THEN LockupPanic("report_condition", caller, OnlyVerifier)
    ELSE IF ~NotYetReported(condition_was_met)
    THEN LockupPanic("report_condition", caller, AlreadyReported)
    ELSE /\ condition_was_met' = Some(condition_met)
         /\ UNCHANGED <<user_account_id, beneficiary_id, verifier_account_id,
                        locked_amount, released, account_balance>>
         /\ LockupDone("report_condition", caller, Ok)

\* Promise::new(to).transfer(NearToken::from_yoctonear(self.locked_amount));
\* the host refuses a transfer the account's balance does not cover
Release(caller, to) ==
    IF locked_amount > account_balance
    THEN LockupPanic("withdraw", caller, BalanceExceeded)
    ELSE /\ account_balance' = account_balance - locked_amount
         /\ released' = Append(released,
                               [to |-> to, amount |-> locked_amount])
         /\ UNCHANGED <<user_account_id, beneficiary_id, verifier_account_id,
                        locked_amount, condition_was_met>>
         /\ LockupDone("withdraw", caller, Ok)

withdraw(caller) ==
    /\ Len(released) < MaxReleases
    /\ IF IsNone(condition_was_met)
       THEN LockupPanic("withdraw", caller, NotReported)
       ELSE IF Unwrap(condition_was_met)
       THEN IF IsNone(user_account_id)
            THEN LockupPanic("withdraw", caller, UnwrapNone)
            ELSE IF ~SameAccount(caller, Unwrap(user_account_id))
            THEN LockupPanic("withdraw", caller, OnlyUser)
            ELSE Release(caller, Unwrap(user_account_id))
       ELSE IF ~SameAccount(caller, beneficiary_id)
            THEN LockupPanic("withdraw", caller, OnlyBeneficiary)
            ELSE Release(caller, beneficiary_id)

CallLockFunds == \E a \in Parties, d \in Deposits : lock_funds(a, d)

CallReportCondition ==
    \E a \in Parties, met \in BOOLEAN : report_condition(a, met)

CallWithdraw == \E a \in Parties : withdraw(a)

NextLockup ==
    \/ CallLockFunds
    \/ CallReportCondition
    \/ CallWithdraw

SpecLockup == InitLockup /\ [][NextLockup]_vars

LockupTypeOK ==
    /\ user_account_id \in {None} \cup {Some(a) : a \in Parties}
    /\ beneficiary_id \in Parties
    /\ verifier_account_id \in Parties
    /\ locked_amount \in 0 .. U128Max
    /\ condition_was_met \in {None, Some(TRUE), Some(FALSE)}
    /\ account_balance \in 0 .. MaxSupply
    /\ Len(released) <= MaxReleases

TypeOK ==
    /\ owner_id \in Accounts
    /\ DOMAIN staked_balances \subseteq Accounts
    /\ \A a \in DOMAIN staked_balances : staked_balances[a] \in 0 .. U128Max
    /\ total_staked_balance \in 0 .. U128Max
    /\ reward_rate \in 0 .. U8Max
    /\ is_unstaking_locked \in BOOLEAN
    /\ account_balance \in 0 .. MaxSupply
    /\ Len(pending) <= MaxPending
    /\ pc \in {"idle", "mutate", "transfer", "release", "input", "output"}

\* ================================================================= claims
\* what a rejected call leaves alone: the ledger, the funds, the transfers
Untouched ==
    /\ staked_balances' = staked_balances
    /\ total_staked_balance' = total_staked_balance
    /\ reward_rate' = reward_rate
    /\ account_balance' = account_balance
    /\ pending' = pending

\* the call is rejected with msg
Rejected(a, msg) ==
    /\ pc' = "idle"
    /\ last' = [op |-> "unstake", caller |-> a, status |-> msg]

\* a step of this kind is the only one that can be an unstake call
MayBeUnstakeCall == pc = "idle" /\ (pc' = "mutate" \/ last'.op = "unstake")

\* the step is the call unstake(n) by a; the first conjuncts follow from
\* unstake_enter(a, n) and only spare evaluating it for the other callers
IsUnstake(a, n) ==
    /\ IF pc' = "mutate"
       THEN call'.caller = a /\ call'.amount = n
       ELSE last'.caller = a
    /\ unstake_enter(a, n)

\* floor(amount * rate / 100), as the specification states it (rate <= 255)
SpecReward(amount, rate) ==
    CHOOSE r \in 0 .. 3 * amount :
        100 * r <= amount * rate /\ amount * rate < 100 * (r + 1)

\* C1: between operations total_staked equals the sum of all per-participant
\* staked balances, whatever calls were made and however they ended.
C1_TotalIsSum ==
    pc = "idle" => total_staked_balance = SumBalances(staked_balances)

C1_Witness ==
    /\ pc = "idle"
    /\ last.op = "unstake"
    /\ last.status = Ok
    /\ Cardinality(DOMAIN staked_balances) = 2
    /\ \A a \in DOMAIN staked_balances : staked_balances[a] > 0

\* C2: the staked total never exceeds the custodial balance, so neither a
\* reward payout nor an owner withdrawal takes funds that back staked principal.
C2_StakeIsBacked == total_staked_balance <= account_balance

C2_Witness ==
    /\ pc = "release"
    /\ call.reward > 0
    /\ total_staked_balance > 0
    /\ account_balance = total_staked_balance

\* C3: when unstake requests its transfer of amount + reward, the custodial
\* balance the host reported in that call, and the balance at that moment, is
\* at least amount + reward.
C3_TransferFunded ==
    pc = "transfer" =>
        /\ call.total_to_transfer = call.amount + call.reward
        /\ call.balance_seen >= call.amount + call.reward
        /\ account_balance >= call.amount + call.reward

C3_Witness ==
    /\ pc = "transfer"
    /\ call.reward > 0
    /\ call.balance_seen = call.amount + call.reward

\* C4: while the lock is set every unstake call is rejected with AlreadyLocked
\* and changes nothing; with the lock free, a call with sufficient stake and
\* pool funds is admitted and returns successfully.
C4_LockedUnstakeRejected ==
    [][/\ MayBeUnstakeCall => \A a \in Accounts, n \in Amounts :
            IsUnstake(a, n) =>
                IF is_unstaking_locked
                THEN Rejected(a, AlreadyLocked) /\ Untouched
                     /\ is_unstaking_locked'
                ELSE (/\ Get(staked_balances, a) >= n
                      /\ account_balance >=
                            total_staked_balance + SpecReward(n, reward_rate))
                     => pc' = "mutate"
       /\ (pc # "idle" /\ pc' = "idle") => last'.status = Ok
      ]_vars

C4_Witness ==
    /\ pc = "idle"
    /\ is_unstaking_locked
    /\ last = [op |-> "unstake", caller |-> "bob", status |-> AlreadyLocked]
    /\ Get(staked_balances, "bob") > 0
    /\ account_balance > total_staked_balance

\* C5: an unstake invoked while the transfer of an earlier unstake has been
\* requested but not yet delivered by the host is rejected with AlreadyLocked.
C5_SecondUnstakeRejected ==
    [][MayBeUnstakeCall => \A a \in Accounts, n \in Amounts :
          (UnstakeInFlight > 0 /\ IsUnstake(a, n))
              => Rejected(a, AlreadyLocked)
      ]_vars

\* C6: the lock is false whenever no unstake is executing: after a successful
\* unstake and after a rejected one alike.
C6_LockFreeAtRest == pc = "idle" => ~is_unstaking_locked

C6_Witness ==
    /\ pc = "idle"
    /\ ~is_unstaking_locked
    /\ last.op = "unstake"
    /\ last.status = InsufficientPoolFunds

\* C7: unstake of more than the caller's recorded balance is rejected with
\* InsufficientStake, changes no balance and not the total, requests no transfer.
C7_OverdrawRejected ==
    [][MayBeUnstakeCall => \A a \in Accounts, n \in Amounts :
          (n > Get(staked_balances, a) /\ IsUnstake(a, n))
              => Rejected(a, InsufficientStake) /\ Untouched
      ]_vars

C7_Witness ==
    /\ pc = "idle"
    /\ last.op = "unstake"
    /\ last.status = InsufficientStake
    /\ Get(staked_balances, last.caller) > 0

\* C8 as stated: an unstake by a participant with no entry is rejected with
\* InsufficientStake whatever the amount, and changes nothing.
C8_NeverStakedRejected ==
    [][MayBeUnstakeCall => \A a \in Accounts, n \in Amounts :
          (a \notin DOMAIN staked_balances /\ IsUnstake(a, n))
              => Rejected(a, InsufficientStake) /\ Untouched
      ]_vars

\* C8 as amended: an unstake of an amount greater than 0 by a participant with
\* no entry is rejected with InsufficientStake and changes nothing; an unstake
\* of 0 by such a participant passes the stake check.
C8_NeverStakedPositiveRejected ==
    [][MayBeUnstakeCall => \A a \in Accounts, n \in Amounts :
          (a \notin DOMAIN staked_balances /\ IsUnstake(a, n))
              => IF n > 0
                 THEN Rejected(a, InsufficientStake) /\ Untouched
                 ELSE pc' = "mutate" /\ call'.caller = a /\ call'.amount = 0
      ]_vars

C8_Witness ==
    /\ pc = "idle"
    /\ last.op = "unstake"
    /\ last.status = InsufficientStake
    /\ last.caller \notin DOMAIN staked_balances
    /\ staked_balances # <<>>

\* C9: a successful unstake(amount) by c lowers c's balance and the total by
\* exactly amount, leaves the other balances alone, and requests exactly one
\* transfer, to c, of amount + floor(amount * reward_rate / 100).
C9_UnstakeEffect ==
    [][pc = "release" =>
          LET c == call
              pre == c.saved
              paid == c.amount + SpecReward(c.amount, pre.reward_rate)
          IN  /\ last' = [op |-> "unstake", caller |-> c.caller, status |-> Ok]
              /\ c.amount <= Get(pre.staked_balances, c.caller)
              /\ Get(staked_balances', c.caller) =
                     Get(pre.staked_balances, c.caller) - c.amount
              /\ \A o \in Accounts \ {c.caller} :
                     /\ o \in DOMAIN staked_balances'
                            <=> o \in DOMAIN pre.staked_balances
                     /\ Get(staked_balances', o) = Get(pre.staked_balances, o)
              /\ total_staked_balance' = pre.total_staked_balance - c.amount
              /\ c.promises = <<[to |-> c.caller, amount |-> paid,
                                 op |-> "unstake"]>>
              /\ pending' = Newest(Append(pending,
                                [to |-> c.caller, op |-> "unstake"]))
              /\ account_balance' = pre.account_balance - paid
      ]_vars

C9_Witness ==
    /\ pc = "release"
    /\ call.reward > 0
    /\ call.amount * call.saved.reward_rate % 100 # 0
    /\ \E a \in DOMAIN staked_balances :
          a # call.caller /\ staked_balances[a] > 0

\* C10: with the lock free and the caller's balance at least amount, unstake
\* is rejected with InsufficientPoolFunds exactly when the custodial balance
\* is below total_staked (before the reduction) + reward; the rejected call
\* changes nothing and requests no transfer.
C10_PoolFundsCheck ==
    [][MayBeUnstakeCall => \A a \in Accounts, n \in Amounts :
          (/\ ~is_unstaking_locked
           /\ Get(staked_balances, a) >= n
           /\ IsUnstake(a, n))
              => IF account_balance <
                        total_staked_balance + SpecReward(n, reward_rate)
                 THEN Rejected(a, InsufficientPoolFunds) /\ Untouched
                 ELSE pc' = "mutate" /\ call'.amount = n /\ call'.caller = a
      ]_vars

C10_Witness ==
    /\ pc = "idle"
    /\ last.op = "unstake"
    /\ last.status = InsufficientPoolFunds
    /\ Get(staked_balances, last.caller) > 0
    /\ account_balance > 0

\* C11: withdraw_funds by the owner of more than custodial balance minus
\* total_staked is rejected with InsufficientAvailableFunds and requests no
\* transfer, for every balance and total, a balance below the total included.
C11_OverdrawnWithdrawRejected ==
    [][\A n \in Amounts :
          (/\ n > account_balance - total_staked_balance
           /\ withdraw_funds(owner_id, n))
              => /\ pc' = "idle"
                 /\ last' = [op |-> "withdraw_funds", caller |-> owner_id,
                             status |-> InsufficientAvailableFunds]
                 /\ pending' = pending
                 /\ account_balance' = account_balance
      ]_vars

\* C12: set_reward_rate, deposit_funds and withdraw_funds called by anyone but
\* the owner fail with NotAuthorized whatever the argument and the funds, and
\* leave reward_rate, the balances and total_staked unchanged, no transfer
\* being requested.
C12_OwnerOnly ==
    [][(pc = "idle" /\ pc' = "idle") =>
          \A a \in Accounts \ {owner_id} :
              (last'.caller = a) =>
                  /\ \A r \in Rates :
                        (last'.op = "set_reward_rate" /\ set_reward_rate(a, r))
                            => /\ last'.status = NotAuthorizedRate
                               /\ Untouched
                               /\ is_unstaking_locked' = is_unstaking_locked
                  /\ \A d \in Deposits :
                        (last'.op = "deposit_funds" /\ deposit_funds(a, d))
                            => /\ last'.status = NotAuthorizedDeposit
                               /\ Untouched
                               /\ is_unstaking_locked' = is_unstaking_locked
                  /\ \A n \in Amounts :
                        (last'.op = "withdraw_funds" /\ withdraw_funds(a, n))
                            => /\ last'.status = NotAuthorizedWithdraw
                               /\ Untouched
                               /\ is_unstaking_locked' = is_unstaking_locked
      ]_vars

\* a stranger's withdraw_funds was refused although funds were available
C12_Witness ==
    /\ pc = "idle"
    /\ last.op = "withdraw_funds"
    /\ last.caller # owner_id
    /\ last.status = NotAuthorizedWithdraw
    /\ account_balance > total_staked_balance
    /\ reward_rate # 10

\* C13: for every amount of the amount type and every rate in 0..255 the
\* reward unstake computes is floor(amount * rate / 100), the product not
\* wrapping and the quotient truncated toward zero; the only other outcome is
\* the panic of the cast when that floor does not fit the amount type.
C13_RewardIsFloor ==
    pc = "output" =>
        IF SpecReward(call.amount, reward_rate) <= U128Max
        THEN /\ last.status = Ok
             /\ call.reward = SpecReward(call.amount, reward_rate)
        ELSE last.status = Overflow

\* a product beyond the amount type, divided with a remainder
C13_Witness ==
    /\ pc = "output"
    /\ reward_rate = 15
    /\ call.amount * reward_rate > U128Max
    /\ (call.amount * reward_rate) % 100 # 0
    /\ last.status = Ok
    /\ call.reward > 0
    /\ 100 * call.reward <= call.amount * reward_rate
    /\ call.amount * reward_rate < 100 * (call.reward + 1)

\* C14: the reward does not decrease when the amount grows at a fixed rate
\* nor when the rate grows at a fixed amount, and it is 0 at rate 0.
C14_RewardMonotonic ==
    [][(pc = "output" /\ pc' = "output") =>
          /\ last.status = Ok /\ last'.status = Ok
                 => call'.reward >= call.reward
          /\ last.status = Overflow => last'.status = Overflow
          /\ reward_rate = 0 => last.status = Ok /\ call.reward = 0
      ]_vars

\* a step to a larger amount that raised the reward
C14_Witness ==
    /\ pc = "output"
    /\ last.status = Ok
    /\ call.amount > 0
    /\ call.reward > Reward(call.amount - 1, reward_rate)
    /\ call.reward >= Reward(call.amount, reward_rate - 1)
    /\ reward_rate > 0

\* C15: set_reward_rate by the owner changes only reward_rate (the balances,
\* total_staked, the lock, the funds and the transfers already requested stay
\* as they are), and an unstake pays the reward computed from the rate in
\* force when it is called.
C15_RateChangeOnlyRate ==
    [][/\ (pc = "idle" /\ pc' = "idle" /\ last'.op = "set_reward_rate"
           /\ last'.caller = owner_id) =>
              \A r \in Rates :
                  set_reward_rate(owner_id, r)
                      => /\ last'.status = Ok
                         /\ reward_rate' = r
                         /\ staked_balances' = staked_balances
                         /\ total_staked_balance' = total_staked_balance
                         /\ is_unstaking_locked' = is_unstaking_locked
                         /\ account_balance' = account_balance
                         /\ pending' = pending
       /\ (pc = "idle" /\ pc' = "mutate") =>
              \A a \in Accounts, n \in Amounts :
                  IsUnstake(a, n)
                      => /\ call'.reward = SpecReward(n, reward_rate)
                         /\ call'.total_to_transfer
                                = n + SpecReward(n, reward_rate)
       /\ pc # "idle" => reward_rate' = reward_rate
      ]_vars

\* the owner raised the rate and the next unstake is paid at the new rate
C15_Witness ==
    /\ pc = "release"
    /\ last = [op |-> "set_reward_rate", caller |-> owner_id, status |-> Ok]
    /\ reward_rate = 150
    /\ call.amount = 1
    /\ call.reward = 1
    /\ call.total_to_transfer = 2
    /\ total_staked_balance > 0

\* C16: stake with attached value d by caller a succeeds whoever calls and
\* whether or not the lock is set, adds exactly d to a's staked balance (0 if
\* a had no entry) and to total_staked without wraparound, leaves the other
\* participants' balances, the reward rate and the lock as they are, and
\* requests no transfer.
C16_StakeEffect ==
    [][(pc = "idle" /\ pc' = "idle" /\ last'.op = "stake") =>
          \A a \in Accounts, d \in Deposits :
              (/\ last'.caller = a
               /\ last'.status = Ok => account_balance' = account_balance + d
               /\ stake(a, d))
                  => /\ last'.status = Ok
                     /\ a \in DOMAIN staked_balances'
                     /\ staked_balances'[a] = Get(staked_balances, a) + d
                     /\ total_staked_balance' = total_staked_balance + d
                     /\ \A b \in Accounts \ {a} :
                           /\ b \in DOMAIN staked_balances'
                                 <=> b \in DOMAIN staked_balances
                           /\ Get(staked_balances', b) = Get(staked_balances, b)
                     /\ reward_rate' = reward_rate
                     /\ is_unstaking_locked' = is_unstaking_locked
                     /\ account_balance' = account_balance + d
                     /\ pending' = pending
      ]_vars

\* a stake by someone who is not the owner, made while the lock was set and
\* another participant held a stake
C16_Witness ==
    /\ pc = "idle"
    /\ last.op = "stake"
    /\ last.caller # owner_id
    /\ last.status = Ok
    /\ is_unstaking_locked
    /\ Get(staked_balances, last.caller) > 0
    /\ Get(staked_balances, owner_id) > 0
    /\ total_staked_balance = SumBalances(staked_balances)

\* C17: withdraw fails while no condition has been reported; after a report
\* of met only the user who locked the funds can withdraw, after a report of
\* not met only the beneficiary can; a successful withdraw requests one
\* transfer of exactly locked_amount to that party.
C17_WithdrawByOutcome ==
    [][\A a \in Parties :
          (last'.op = "withdraw" /\ last'.caller = a /\ withdraw(a)) =>
              /\ IsNone(condition_was_met) => last'.status = NotReported
              /\ (condition_was_met = Some(TRUE)
                     /\ user_account_id # Some(a))
                       => last'.status \in {OnlyUser, UnwrapNone}
              /\ (condition_was_met = Some(FALSE) /\ a # beneficiary_id)
                       => last'.status = OnlyBeneficiary
              /\ (/\ locked_amount <= account_balance
                  /\ \/ condition_was_met = Some(TRUE)
                           /\ user_account_id = Some(a)
                     \/ condition_was_met = Some(FALSE) /\ a = beneficiary_id)
                       => last'.status = Ok
              /\ IF last'.status = Ok
                 THEN /\ released' = Append(released,
                               [to |-> a, amount |-> locked_amount])
                      /\ account_balance' = account_balance - locked_amount
                 ELSE /\ released' = released
                      /\ account_balance' = account_balance
      ]_vars

\* the condition was reported not met and the beneficiary, who is not the
\* user, was paid the locked amount
C17_Witness ==
    /\ last.op = "withdraw"
    /\ last.status = Ok
    /\ last.caller = beneficiary_id
    /\ condition_was_met = Some(FALSE)
    /\ user_account_id # None
    /\ user_account_id # Some(beneficiary_id)
    /\ locked_amount > 0
    /\ released = <<[to |-> beneficiary_id, amount |-> locked_amount]>>

\* C18: report_condition succeeds only for the verifier and only while no
\* outcome is recorded; a recorded outcome never changes afterwards, and a
\* rejected report leaves the state as it was.
C18_ReportOnce ==
    [][/\ \A a \in Parties, met \in BOOLEAN :
            (/\ last'.op = "report_condition"
             /\ last'.caller = a
             /\ report_condition(a, met))
                => /\ last'.status = Ok
                        <=> (a = verifier_account_id
                                /\ IsNone(condition_was_met))
                   /\ a # verifier_account_id
                        => last'.status = OnlyVerifier
                   /\ (a = verifier_account_id
                         /\ ~IsNone(condition_was_met))
                        => last'.status = AlreadyReported
                   /\ IF last'.status = Ok
                      THEN /\ condition_was_met' = Some(met)
                           /\ UNCHANGED <<user_account_id, beneficiary_id,
                                          verifier_account_id, locked_amount,
                                          released, account_balance>>
                      ELSE UNCHANGED <<lockup_vars, account_balance>>
       /\ ~IsNone(condition_was_met)
              => condition_was_met' = condition_was_met
      ]_vars

\* the verifier's second report was refused and the first outcome stands
C18_Witness ==
    /\ last.op = "report_condition"
    /\ last.caller = verifier_account_id
    /\ last.status = AlreadyReported
    /\ condition_was_met = Some(FALSE)
    /\ user_account_id # None

RECURSIVE SumReleased(_)
SumReleased(seq) ==
    IF seq = <<>> THEN 0 ELSE Head(seq).amount + SumReleased(Tail(seq))

\* C19: the lockup contract releases once: whatever lock_funds,
\* report_condition and withdraw calls are made, at most one transfer of the
\* locked amount is requested and the total paid out never exceeds the amount
\* locked.
C19_SingleRelease ==
    /\ Len(released) <= 1
    /\ SumReleased(released) <= locked_amount

\* C20: lock_funds succeeds at most once: after a successful lock_funds every
\* later lock_funds, whoever calls, fails with "Funds are already locked" and
\* leaves the recorded user and locked_amount unchanged.
C20_LockOnce ==
    [][/\ \A a \in Parties, d \in Deposits :
            (/\ last'.op = "lock_funds"
             /\ last'.caller = a
             /\ lock_funds(a, d))
                => IF IsNone(user_account_id)
                   THEN /\ last'.status = Ok
                        /\ user_account_id' = Some(a)
                        /\ locked_amount' = d
                        /\ account_balance' = account_balance + d
                   ELSE /\ last'.status = FundsAlreadyLocked
                        /\ UNCHANGED <<lockup_vars, account_balance>>
       /\ ~IsNone(user_account_id)
              => /\ user_account_id' = user_account_id
                 /\ locked_amount' = locked_amount
      ]_vars

\* a second lock_funds, by another caller, was refused
C20_Witness ==
    /\ last.op = "lock_funds"
    /\ last.status = FundsAlreadyLocked
    /\ user_account_id # None
    /\ user_account_id # Some(last.caller)
    /\ locked_amount > 0

\* the ledger as the executing unstake found it
LedgerAsFound ==
    /\ staked_balances = call.saved.staked_balances
    /\ total_staked_balance = call.saved.total_staked_balance

\* the executing unstake has taken amount off the caller's entry and the total
LedgerDecremented ==
    /\ call.caller \in DOMAIN staked_balances
    /\ staked_balances[call.caller] = call.current_balance - call.amount
    /\ total_staked_balance = call.saved.total_staked_balance - call.amount

\* C21: a successful unstake acquires the lock, then decrements the caller's
\* balance and total_staked, and only then requests the transfer; the lock is
\* held from its acquisition to the end of the call, so it is never released
\* before the decrement has been made.
C21_UnstakeOrder ==
    /\ pc \in {"mutate", "transfer", "release"}
          => /\ is_unstaking_locked
             /\ call.op = "unstake"
             /\ ~call.saved.is_unstaking_locked
    /\ pc = "mutate" => LedgerAsFound /\ call.promises = <<>>
    /\ pc = "transfer" => LedgerDecremented /\ call.promises = <<>>
    /\ pc = "release"
          => /\ LedgerDecremented
             /\ call.promises = <<[to |-> call.caller,
                                   amount |-> call.total_to_transfer,
                                   op |-> "unstake"]>>
    /\ (pc = "idle" /\ last.op = "unstake" /\ last.status = Ok)
          => ~is_unstaking_locked

\* the transfer of a positive amount has been requested, the ledger is
\* already decremented and the lock is still held
C21_Witness ==
    /\ pc = "release"
    /\ call.amount > 0
    /\ Len(call.promises) = 1
    /\ is_unstaking_locked
    /\ total_staked_balance < call.saved.total_staked_balance
    /\ Get(staked_balances, call.caller) < call.current_balance

====
